---- MODULE Spec2Model ----
(***************************************************************************)
(* Model of vscode-sftp's FileService (core/fileService.ts): the transfer  *)
(* schedulers it hands out, its pending-task set, its BEFORE_TRANSFER /    *)
(* AFTER_TRANSFER events, and its configuration resolution (getConfig).    *)
(*                                                                         *)
(* core/scheduler.ts and core/transferTask.ts are not among the source    *)
(* files; the Scheduler and the task are modelled from the design text     *)
(* (section 4.3 and the TransferTask states of section 3).                 *)
(***************************************************************************)
EXTENDS Integers, Sequences, FiniteSets, TLC

\* ------------------------------------------------------------------ bounds
\* The schedulers created, tasks added, run() calls and dispose() calls made
\* in a behaviour, together.
MaxObjects == 5
\* The batch specification: the tasks of the one batch.
LiveTasks == 5

Min(a, b) == IF a < b THEN a ELSE b
Max(a, b) == IF a > b THEN a ELSE b

Scheds == 1..MaxObjects
Tasks == 1..Max(MaxObjects, LiveTasks)
ConcurrencyInputs == {1, 2}
Outcomes == {"null", "err"}

\* ------------------------------------------------------------------ state
VARIABLES
  schedConc,          \* Scheduler option `concurrency` of each created scheduler
  handleConc,         \* the argument createTransferScheduler was called with
  queue,              \* Scheduler: queued (not yet dispatched) tasks, FIFO
  running,            \* Scheduler: dispatched tasks that have not completed
  transferSchedulers, \* FileService._transferSchedulers
  pendingTransferTasks, \* FileService._pendingTransferTasks
  nTasks,             \* number of tasks handed to add() so far
  taskSched,          \* the scheduler a task was added to (0: none yet)
  taskState,          \* "none" | "queued" | "running" | "succeeded" | "failed" | "cancelled" | "dropped"
  cancelCount,        \* number of cancel() calls each task received
  beforeEv,           \* number of BEFORE_TRANSFER events emitted per task
  afterEv,            \* number of AFTER_TRANSFER events emitted per task
  afterErr,           \* the error argument of a task's AFTER_TRANSFER event
  runs,               \* per scheduler, one record per run() call: outcome, idle observers
  stoppedQueued,      \* tasks that were queued in an active scheduler at a cancelTransferTasks()
  ranQueued,          \* tasks that were queued in a scheduler when run() started it
  disposed,           \* dispose() has been called
  fsConfig,           \* FileService._config: the raw configuration
  stateProfile,       \* app.state.profile: the active profile
  configValidator,    \* FileService._configValidator
  fsCache,            \* app.fsCache: file contents by path, most recently used first
  disk,               \* the files that exist, with their contents
  env,                \* process.env
  lastCall,           \* the getConfig call made since the external state last
                      \* changed: its argument, the validator and the cache
                      \* it found, its completeConfig, and whether the call
                      \* before it had the same argument
  lastResult,         \* what that getConfig call returned or threw
  merge,              \* a call of mergeProfile or of the SSH-config merge on its
                      \* own: the arguments and, once made, the result
  cmd                 \* one Command instance: its done-listeners, the progress
                      \* of its run() call and of the handlers that call started

svars == <<schedConc, handleConc, queue, running, transferSchedulers,
           pendingTransferTasks, nTasks, taskSched, taskState, cancelCount,
           beforeEv, afterEv, afterErr, runs, stoppedQueued, ranQueued,
           disposed>>

cvars == <<fsConfig, stateProfile, configValidator, fsCache, disk, env, lastCall,
           lastResult>>

vars == <<svars, cvars, merge, cmd>>

RECURSIVE SumLen(_, _)
SumLen(f, n) == IF n = 0 THEN 0 ELSE Len(f[n]) + SumLen(f, n - 1)

NumSched == Len(schedConc)
NumRuns == SumLen(runs, MaxObjects)
Objects == NumSched + nTasks + NumRuns + (IF disposed THEN 1 ELSE 0)
Created == 1..NumSched

\* ------------------------------------------------------------------ Scheduler (core/scheduler.ts)
\* size: queued plus running tasks.
SchedulerSize(s) == Len(queue[s]) + Cardinality(running[s])

\* The tasks a scheduler dispatches when it has free slots: the first queued
\* tasks, as many as the concurrency limit leaves room for.
DispatchCount(q, r, c) == Min(Len(q), Max(c - Cardinality(r), 0))
Dispatched(q, r, c) == SubSeq(q, 1, DispatchCount(q, r, c))
Remaining(q, r, c) == SubSeq(q, DispatchCount(q, r, c) + 1, Len(q))

SeqToSet(q) == {q[i] : i \in 1..Len(q)}

\* empty(): discards the queued tasks.
SchedulerEmpty(q) == <<>>

\* ------------------------------------------------------------------ FileService
\* The part of the FileService the scheduler's observers write.
FsView == [pending |-> pendingTransferTasks, before |-> beforeEv,
           after |-> afterEv, err |-> afterErr]

\* Variant: the start observer tracks the task but emits no event.
OnTaskStartHandlerNoEmit(fs, t) ==
  [fs EXCEPT !.pending = @ \cup {t}]

\* scheduler.onTaskStart((task) => { pending.add(task); emit(BEFORE_TRANSFER, task) })
OnTaskStartHandler(fs, t) ==
  [fs EXCEPT !.pending = @ \cup {t}, !.before[t] = @ + 1]

\* Variant: the done observer returns early when the task failed.
OnTaskDoneHandlerSkipsError(fs, e, t) ==
  IF e = "err" THEN fs
  ELSE [fs EXCEPT !.pending = @ \ {t}, !.after[t] = @ + 1, !.err[t] = e]

\* Variant: the done observer emits the event and leaves the task in the set.
OnTaskDoneHandlerKeepsPending(fs, e, t) ==
  [fs EXCEPT !.after[t] = @ + 1, !.err[t] = e]

\* scheduler.onTaskDone((err, task) => { pending.delete(task); emit(AFTER_TRANSFER, err, task) })
OnTaskDoneHandler(fs, e, t) ==
  [fs EXCEPT !.pending = @ \ {t}, !.after[t] = @ + 1, !.err[t] = e]

\* The onTaskStart observer applied to the tasks of one dispatch, in queue order.
RECURSIVE StartAll(_, _)
StartAll(fs, ts) ==
  IF ts = <<>> THEN fs
  ELSE StartAll(OnTaskStartHandler(fs, Head(ts)), Tail(ts))

\* Variant: the scheduler is built with one slot too many.
SchedulerOptionsOffByOne(concurrency) ==
  [autoStart |-> FALSE, concurrency |-> concurrency + 1]

\* new Scheduler({ autoStart: false, concurrency })
SchedulerOptions(concurrency) == [autoStart |-> FALSE, concurrency |-> concurrency]

\* _storeScheduler: this._transferSchedulers.push(scheduler)
StoreScheduler(list, s) == Append(list, s)

\* The body of the commented-out _removeScheduler: indexOf / splice.
RemoveScheduler(list, s) == SelectSeq(list, LAMBDA x : x # s)

\* run() calls this._removeScheduler(...). FileService defines no such method
\* (its definition is commented out) and `this` inside run() is the handle
\* object literal, which has no such member either: the call raises TypeError.
HasRemoveScheduler == FALSE

\* ------------------------------------------------------------------ configuration values
\* A JavaScript object is a function from its own keys to their values; a key
\* that is not in the domain reads as undefined.
Undef == "<undefined>"
Null == "<null>"
EmptyObject == [x \in {} |-> x]

Has(o, k) == k \in DOMAIN o
Assign(o, k, v) == [x \in (DOMAIN o) \cup {k} |-> IF x = k THEN v ELSE o[x]]
Delete(o, k) == [x \in (DOMAIN o) \ {k} |-> o[x]]
\* { ...a, ...b }
Spread(a, b) ==
  [x \in (DOMAIN a) \cup (DOMAIN b) |-> IF x \in DOMAIN b THEN b[x] ELSE a[x]]

\* const x = v; ... : v is evaluated once and F applied to its value.
Bind(v, F(_)) == CHOOSE r \in {F(x) : x \in {v}} : TRUE

\* Truthiness of a string-or-null value, and of a string-valued key.
Truthy(v) == v \notin {Undef, Null, ""}
TruthyKey(o, k) == Has(o, k) /\ Truthy(o[k])

\* The properties every object inherits from Object.prototype; reading one
\* of them yields a function or an object with no own enumerable keys.
ObjectPrototypeKeys == {"constructor", "toString", "__proto__"}

\* Array.isArray(v): an `ignore` value that is not an array is the marker
\* "<string>" followed by its text.
IsArray(v) == v = <<>> \/ v[1] # "<string>"

\* ------------------------------------------------------------------ modules/config.ts
DefaultConcurrency == 4
DefaultConnectTimeout == 10000

\* defaultConfig: the keys configuration resolution reads.
DefaultConfig ==
  [remotePath |-> "./", ignore |-> <<>>, concurrency |-> DefaultConcurrency,
   protocol |-> "sftp", connectTimeout |-> DefaultConnectTimeout]

\* mergedDefault(config): { ...defaultConfig, ...config }
MergedDefault(config) == Spread(DefaultConfig, config)

\* configScheme: host and username are required (the part of the schema the
\* inputs exercise).
SchemeError(config) == ~(TruthyKey(config, "host") /\ TruthyKey(config, "username"))

\* validateConfig(config): a { message } payload on both branches, never
\* undefined.
ValidateConfig(config) ==
  IF SchemeError(config)
  THEN [isUndefined |-> FALSE, message |-> "child fails because is required"]
  ELSE [isUndefined |-> FALSE, message |-> "Validation passed."]

\* ------------------------------------------------------------------ app.fsCache (LRU, max 6)
FsCacheMax == 6

CacheHas(c, k) == \E i \in 1..Len(c) : c[i].k = k
CacheIndex(c, k) == CHOOSE i \in 1..Len(c) : c[i].k = k
CacheWithout(c, k) == SelectSeq(c, LAMBDA e : e.k # k)
\* get(k): the value, and the entry becomes the most recently used.
CacheValue(c, k) == c[CacheIndex(c, k)].v
CacheTouch(c, k) ==
  IF CacheHas(c, k) THEN <<c[CacheIndex(c, k)]>> \o CacheWithout(c, k) ELSE c
\* set(k, v): the least recently used entries beyond the capacity are dropped.
CacheSet(c, k, v) ==
  LET c1 == <<[k |-> k, v |-> v]>> \o CacheWithout(c, k)
  IN SubSeq(c1, 1, Min(Len(c1), FsCacheMax))

\* ------------------------------------------------------------------ helpers of fileService.ts
\* What the disk holds for an ignore file that exists (fs.existsSync) and
\* cannot be read (fs.readFileSync throws).  For the SSH config file every
\* failure of fs.readFileSync takes the same path as a missing file, so the
\* model has the file present or absent.
Unreadable == <<"<unreadable>">>

Workspace == "/ws"

\* resolvePath(workspace, p): p resolved against the workspace root.
ResolvePath(ws, p) ==
  CASE p = ".sftpignore" -> "/ws/.sftpignore"
    [] p = "id_rsa" -> "/ws/id_rsa"
    [] OTHER -> p

\* upath.normalize(remotePath)
NormalizeRemotePath(p) ==
  CASE p = "./" -> "."
    [] p = "./site" -> "site"
    [] OTHER -> p

\* replaceHomePath(path): a leading ~ becomes the home directory.
ReplaceHomePath(p) ==
  CASE p = "~/.ssh/config" -> "/home/u/.ssh/config"
    [] OTHER -> p

DEFAULT_SSHCONFIG_FILE == "~/.ssh/config"

\* parseInt(value, 10) of the port strings that occur.
ParseInt(v) ==
  CASE v = "22" -> 22
    [] v = "2222" -> 2222
    [] v = "2200" -> 2200

\* getUserSetting(SETTING_KEY_REMOTE): the remotes of the user settings.
RemoteSettings ==
  [dev |-> [host |-> "dev.example.com", username |-> "dev", rootPath |-> "/srv"]]

\* remoteKeyMapping.get(key) || key
RemoteKeyMapping(key) == IF key = "scheme" THEN "protocol" ELSE key

\* agent.startsWith('$') and agent.slice(1)
StartsWithDollar(agent) == agent = "$SSH_AUTH_SOCK"
EnvVarName(agent) == "SSH_AUTH_SOCK"

\* An outcome: a value, or a thrown error; the cache as the call left it.
Ok(v, cache) == [ok |-> TRUE, err |-> "", v |-> v, cache |-> cache]
Throw(e, cache) == [ok |-> FALSE, err |-> e, v |-> EmptyObject, cache |-> cache]

\* chooseDefaultPort(protocol)
FtpPort == 21
SshPort == 22
ChooseDefaultPortSsh(protocol) == SshPort
ChooseDefaultPort(protocol) == IF protocol = "ftp" THEN FtpPort ELSE SshPort

SetConfigValueAlways(config, key, value) ==
  Assign(config, key, IF key = "port" THEN ParseInt(value) ELSE value)

\* setConfigValue(config, key, value)
SetConfigValue(config, key, value) ==
  IF ~Has(config, key)
  THEN Assign(config, key, IF key = "port" THEN ParseInt(value) ELSE value)
  ELSE config

\* A line of an ignore file that line.trim() leaves empty.
IsBlankLine(l) == l \in {"", " "}

FilesIgnoredFromConfigLenient(config, cache, files) ==
  LET ignore == IF Has(config, "ignore") /\ IsArray(config["ignore"])
                THEN config["ignore"] ELSE <<>>
      f == config["ignoreFile"]
  IN IF TruthyKey(config, "ignoreFile") /\ Has(files, f) /\ files[f] # Unreadable
     THEN Ok(ignore \o SelectSeq(files[f], LAMBDA l : ~IsBlankLine(l)),
             CacheSet(cache, f, files[f]))
     ELSE Ok(ignore, cache)

\* filesIgnoredFromConfig(config): the patterns of `ignore` followed by the
\* non-blank lines of the ignore file, read through the cache.
FilesIgnoredFromConfig(config, cache, files) ==
  LET ignore == IF Has(config, "ignore") /\ IsArray(config["ignore"])
                   /\ Len(config["ignore"]) > 0
                THEN config["ignore"] ELSE <<>>
      lines(content) == SelectSeq(content, LAMBDA l : ~IsBlankLine(l))
  IN
    IF ~TruthyKey(config, "ignoreFile") THEN Ok(ignore, cache)
    ELSE LET f == config["ignoreFile"] IN
      IF CacheHas(cache, f)
      THEN Ok(ignore \o lines(CacheValue(cache, f)), CacheTouch(cache, f))
      ELSE IF Has(files, f)
      THEN IF files[f] = Unreadable THEN Throw("IgnoreFileReadError", cache)
           ELSE Ok(ignore \o lines(files[f]), CacheSet(cache, f, files[f]))
      ELSE Throw("IgnoreFileNotFound", cache)

\* The first host block of a parsed SSH config whose Host is `host`
\* (sshConfig.parse(content).find({ Host: host })), 0 when there is none.
FindSection(sections, host) ==
  IF \E i \in 1..Len(sections) : sections[i].Host = host
  THEN CHOOSE i \in 1..Len(sections) :
         /\ sections[i].Host = host
         /\ \A j \in 1..(i - 1) : sections[j].Host # host
  ELSE 0

\* line.param.toLowerCase() of the parameter names that occur.
ToLowerCase(param) ==
  CASE param = "HostName" -> "hostname"
    [] param = "Port" -> "port"
    [] param = "User" -> "user"
    [] param = "IdentityFile" -> "identityfile"
    [] param = "ServerAliveInterval" -> "serveraliveinterval"
    [] param = "ConnectTimeout" -> "connecttimeout"
    [] param = "ProxyJump" -> "proxyjump"
    [] OTHER -> param

\* sshKeyMapping
SshKeys == {"hostname", "port", "user", "identityfile", "serveraliveinterval",
            "connecttimeout"}
SshKeyMapping(param) ==
  CASE param = "hostname" -> "host"
    [] param = "port" -> "port"
    [] param = "user" -> "username"
    [] param = "identityfile" -> "privateKeyPath"
    [] param = "serveraliveinterval" -> "keepalive"
    [] param = "connecttimeout" -> "connTimeout"

\* section.config.forEach(line => ...): hostname overwrites host, the other
\* mapped keys are set when still undefined.
RECURSIVE ApplySshLines(_, _)
ApplySshLines(config, ls) ==
  IF ls = <<>> THEN config
  ELSE LET line == Head(ls)
           param == ToLowerCase(line.param)
           next == IF param \notin SshKeys THEN config
                   ELSE IF SshKeyMapping(param) = "host"
                        THEN Assign(config, "host", line.value)
                        ELSE SetConfigValue(config, SshKeyMapping(param), line.value)
       IN ApplySshLines(next, Tail(ls))

\* Object.entries(remote).forEach(...): every key of the remote except
\* rootPath is set under its mapped name when the config leaves it undefined.
MergeRemote(config, remote) ==
  LET keys == (DOMAIN remote) \ {"rootPath"}
      targets == {RemoteKeyMapping(k) : k \in keys}
      from(x) == CHOOSE k \in keys : RemoteKeyMapping(k) = x
  IN [x \in (DOMAIN config) \cup targets |->
        IF x \in DOMAIN config THEN config[x] ELSE remote[from(x)]]

MergeSshConfigStrict(mergedConfig, sshConfigPath, cache, files) ==
  IF ~CacheHas(cache, sshConfigPath) /\ ~Has(files, sshConfigPath)
  THEN Throw("SshConfigNotFound", cache)
  ELSE Ok(mergedConfig, cache)

\* The SSH-config step of mergeConfigWithExternalRefer: the host block of
\* the file at sshConfigPath, read through the cache, applied to mergedConfig.
MergeSshConfig(mergedConfig, sshConfigPath, cache, files) ==
  LET cached == CacheHas(cache, sshConfigPath)
                  /\ CacheValue(cache, sshConfigPath) # <<>>
      cache1 == CacheTouch(cache, sshConfigPath)
  IN
    IF ~cached /\ ~Has(files, sshConfigPath) THEN Ok(mergedConfig, cache1)
    ELSE
      LET content == IF cached THEN CacheValue(cache, sshConfigPath)
                     ELSE files[sshConfigPath]
          cache2 == IF cached THEN cache1
                    ELSE CacheSet(cache1, sshConfigPath, content)
          i == IF Has(mergedConfig, "host")
               THEN FindSection(content, mergedConfig["host"]) ELSE 0
      IN
        IF i = 0 THEN Ok(mergedConfig, cache2)
        ELSE Ok(ApplySshLines(mergedConfig, content[i].config), cache2)

\* mergeConfigWithExternalRefer(config)
MergeConfigWithExternalRefer(config, cache, files) ==
  IF TruthyKey(config, "remote") /\ ~Has(RemoteSettings, config["remote"])
  THEN Throw("RemoteNotFound", cache)
  ELSE Bind(IF TruthyKey(config, "remote")
            THEN MergeRemote(config, RemoteSettings[config["remote"]])
            ELSE config,
            LAMBDA mergedConfig :
              IF config["protocol"] # "sftp" THEN Ok(mergedConfig, cache)
              ELSE MergeSshConfig(
                     mergedConfig,
                     ReplaceHomePath(IF TruthyKey(config, "sshConfigPath")
                                     THEN config["sshConfigPath"]
                                     ELSE DEFAULT_SSHCONFIG_FILE),
                     cache, files))

\* getCompleteConfig(config, workspace)
GetCompleteConfig(config, workspace, cache, files, environment) ==
  Bind(MergeConfigWithExternalRefer(config, cache, files), LAMBDA m :
    IF ~m.ok THEN m
    ELSE
      Bind(Assign(m.v, "remotePath", NormalizeRemotePath(m.v["remotePath"])),
           LAMBDA c1 :
      Bind(IF TruthyKey(c1, "privateKeyPath")
           THEN Assign(c1, "privateKeyPath",
                       ResolvePath(workspace, c1["privateKeyPath"]))
           ELSE c1,
           LAMBDA c2 :
      Bind(IF TruthyKey(c2, "ignoreFile")
           THEN Assign(c2, "ignoreFile", ResolvePath(workspace, c2["ignoreFile"]))
           ELSE c2,
           LAMBDA c3 :
        IF TruthyKey(c3, "agent") /\ StartsWithDollar(c3["agent"])
        THEN IF ~TruthyKey(environment, EnvVarName(c3["agent"]))
             THEN Throw("EnvVarNotFound", m.cache)
             ELSE Ok(Assign(c3, "agent", environment[EnvVarName(c3["agent"])]),
                     m.cache)
        ELSE Ok(c3, m.cache)))))

MergeProfileSourceFirst(target, source) ==
  LET res == Delete(target, "profiles") IN
    [k \in (DOMAIN res) \cup (DOMAIN source) |->
       IF k \notin DOMAIN source THEN res[k]
       ELSE IF k # "ignore" THEN source[k]
       ELSE IF IsArray(res["ignore"]) /\ IsArray(source["ignore"])
            THEN source["ignore"] \o res["ignore"]
            ELSE IF IsArray(source["ignore"]) THEN source["ignore"] ELSE <<>>]

MergeProfileKeepsTargetIgnore(target, source) ==
  LET res == Delete(target, "profiles") IN
    [k \in (DOMAIN res) \cup (DOMAIN source) |->
       IF k \notin DOMAIN source THEN res[k]
       ELSE IF k # "ignore" THEN source[k]
       ELSE IF IsArray(res["ignore"]) /\ IsArray(source["ignore"])
            THEN res["ignore"] \o source["ignore"]
            ELSE res["ignore"]]

MergeProfileTargetWins(target, source) ==
  LET res == Delete(target, "profiles") IN
    [k \in (DOMAIN res) \cup (DOMAIN source) |->
       IF k \in DOMAIN res THEN res[k] ELSE source[k]]

\* mergeProfile(target, source)
MergeProfile(target, source) ==
  LET res == Delete(target, "profiles")
      ignore == IF Has(res, "ignore") /\ IsArray(res["ignore"])
                   /\ Has(source, "ignore") /\ IsArray(source["ignore"])
                THEN res["ignore"] \o source["ignore"]
                ELSE IF Has(source, "ignore") /\ IsArray(source["ignore"])
                     THEN source["ignore"] ELSE <<>>
  IN [k \in (DOMAIN res) \cup (DOMAIN source) |->
        IF k \in DOMAIN source
        THEN (IF k = "ignore" THEN ignore ELSE source[k])
        ELSE res[k]]

\* The target object after mergeProfile(target, source): the function works
\* on the copy res = { ...target } and assigns res.ignore a newly built array,
\* so target and the array it refers to are as before.
MergeProfileTarget(target, source) == target

\* config.profiles![useProfile]
ProfileLookup(profiles, name) ==
  IF name \in DOMAIN profiles THEN [found |-> TRUE, value |-> profiles[name]]
  ELSE IF name \in ObjectPrototypeKeys THEN [found |-> TRUE, value |-> EmptyObject]
  ELSE [found |-> FALSE, value |-> EmptyObject]

\* getConfig, the profile step: the configuration the rest of getConfig
\* works on, or the "Unknown Profile" error.
SelectProfile(config, useProfile) ==
  LET hasProfiles == Has(config, "profiles") /\ DOMAIN config["profiles"] # {}
  IN IF hasProfiles /\ Truthy(useProfile)
     THEN LET profile == ProfileLookup(config["profiles"], useProfile) IN
            IF ~profile.found THEN [ok |-> FALSE, config |-> config]
            ELSE [ok |-> TRUE, config |-> MergeProfile(config, profile.value)]
     ELSE [ok |-> TRUE, config |-> config]

\* _createIgnoreFn(config): null when there is no pattern, else the predicate
\* compiled from the patterns.
CreateIgnoreFn(patterns) ==
  IF Len(patterns) <= 0 THEN [isNull |-> TRUE, patterns |-> <<>>]
  ELSE [isNull |-> FALSE, patterns |-> patterns]

ResolveServiceConfigKeepsConcurrency(config, cache, files) ==
  Bind(IF ~Has(config, "port")
       THEN Assign(config, "port", ChooseDefaultPort(config["protocol"]))
       ELSE config,
       LAMBDA c1 :
  Bind(FilesIgnoredFromConfig(c1, cache, files), LAMBDA ig :
    IF ~ig.ok THEN ig
    ELSE Ok(Assign(c1, "ignore", CreateIgnoreFn(ig.v)), ig.cache)))

\* _resolveServiceConfig(fileServiceConfig)
ResolveServiceConfig(config, cache, files) ==
  Bind(IF ~Has(config, "port")
       THEN Assign(config, "port", ChooseDefaultPort(config["protocol"]))
       ELSE config,
       LAMBDA c1 :
  Bind(IF c1["protocol"] = "ftp" THEN Assign(c1, "concurrency", 1) ELSE c1,
       LAMBDA c2 :
  Bind(FilesIgnoredFromConfig(c2, cache, files), LAMBDA ig :
    IF ~ig.ok THEN ig
    ELSE Ok(Assign(c2, "ignore", CreateIgnoreFn(ig.v)), ig.cache))))

\* getConfig(useProfile = app.state.profile)
UseProfile(arg, active) == IF arg = Undef THEN active ELSE arg

\* this._configValidator(completeConfig); no validator is installed until
\* setConfigValidator is called.  "validateConfig" is the validator of
\* config.ts; "conventional" is a caller-supplied validator that returns
\* undefined for a configuration it accepts and an error payload for one it
\* rejects.
ValidatorResult(validator, config) ==
  IF validator = "validateConfig" THEN ValidateConfig(config)
  ELSE IF validator = "conventional" /\ SchemeError(config)
  THEN [isUndefined |-> FALSE, message |-> "Validation failed."]
  ELSE [isUndefined |-> TRUE, message |-> ""]

\* getConfig(useProfile) up to completeConfig: the profile selection and
\* getCompleteConfig.
CompleteConfig(config, arg, active, cache, files, environment) ==
  Bind(SelectProfile(config, UseProfile(arg, active)), LAMBDA sel :
    IF ~sel.ok THEN Throw("UnknownProfile", cache)
    ELSE GetCompleteConfig(sel.config, Workspace, cache, files, environment))

\* getConfig(useProfile) from completeConfig on: the validation and
\* _resolveServiceConfig.
ValidateAndResolve(complete, validator, files) ==
  IF ~complete.ok THEN complete
  ELSE IF validator # "none" /\ ValidatorResult(validator, complete.v).isUndefined
  THEN Throw("ValidationFailed", complete.cache)
  ELSE ResolveServiceConfig(complete.v, complete.cache, files)

\* getConfig(useProfile)
GetConfigResult(config, arg, active, validator, cache, files, environment) ==
  Bind(CompleteConfig(config, arg, active, cache, files, environment),
       LAMBDA complete : ValidateAndResolve(complete, validator, files))

\* ------------------------------------------------------------------ initial state
\* The raw configurations a FileService is constructed with: sftp.json
\* entries, each merged over the defaults by readConfigsFromFile.
BaseConfig == [host |-> "example.com"]

ProfilesInputs ==
  {EmptyObject,
   [profiles |-> EmptyObject],
   [profiles |-> [prod |-> [host |-> "prod.example.com", ignore |-> <<"*.tmp">>]]]}

\* sftp configurations with and without username, profiles and ignoreFile,
\* ftp and agent configurations, and one that refers to a remote of the user
\* settings.
RawConfigs ==
  {MergedDefault(Spread(Spread(Spread(BaseConfig, u), pr), i)) :
     u \in {EmptyObject, [username |-> "u"]},
     pr \in ProfilesInputs,
     i \in {EmptyObject, [ignoreFile |-> ".sftpignore"]}}
  \cup
  {MergedDefault(Spread(Spread(BaseConfig, [username |-> "u"]), x)) :
     x \in {[protocol |-> "ftp"],
            [protocol |-> "ftp", ignoreFile |-> ".sftpignore"],
            [agent |-> "$SSH_AUTH_SOCK"]}}
  \cup
  {MergedDefault(Spread(BaseConfig, [remote |-> "dev"]))}

\* The contents a file can have: an ignore file as its lines, an SSH config
\* file as its host blocks (parameter names in lower case).
IgnoreFileContent == <<"*.log", " ", "node_modules">>
SshConfigContent ==
  <<[Host |-> "example.com",
     config |-> <<[param |-> "hostname", value |-> "real.example.com"],
                  [param |-> "port", value |-> "2200"],
                  [param |-> "user", value |-> "sshuser"]>>]>>

\* The contents the files have after an edit.
EditedIgnoreFileContent == <<"dist">>
EditedSshConfigContent ==
  <<[Host |-> "example.com",
     config |-> <<[param |-> "hostname", value |-> "new.example.com"]>>]>>

Files == {"/ws/.sftpignore", "/home/u/.ssh/config"}
FileContent(f) == IF f = "/ws/.sftpignore" THEN IgnoreFileContent ELSE SshConfigContent
FileContents(f) ==
  IF f = "/ws/.sftpignore"
  THEN {IgnoreFileContent, EditedIgnoreFileContent, Unreadable}
  ELSE {SshConfigContent, EditedSshConfigContent}

Disks == {[f \in S |-> FileContent(f)] : S \in SUBSET Files}
Envs == {EmptyObject, [SSH_AUTH_SOCK |-> "/run/agent.sock"]}

Validators == {"validateConfig", "conventional"}

ProfileArgs == {Undef, Null, "", "prod", "staging", "constructor"}
ActiveProfiles == {Null, "prod", "staging"}

NoCall ==
  [called |-> FALSE, arg |-> Undef, useProfile |-> Undef, validator |-> "none",
   cache |-> <<>>, repeated |-> FALSE,
   complete |-> [ok |-> FALSE, v |-> EmptyObject]]
NoResult == [ok |-> TRUE, err |-> "", config |-> EmptyObject]

\* new FileService(baseDir, workspace, config), in a session with no active
\* profile and an empty cache.
InitConfig(config) ==
  /\ fsConfig = config
  /\ stateProfile = Null
  /\ configValidator = "none"
  /\ fsCache = <<>>
  /\ lastCall = NoCall
  /\ lastResult = NoResult

InitScheduler ==
  /\ schedConc = <<>>
  /\ handleConc = <<>>
  /\ queue = [s \in Scheds |-> <<>>]
  /\ running = [s \in Scheds |-> {}]
  /\ transferSchedulers = <<>>
  /\ pendingTransferTasks = {}
  /\ nTasks = 0
  /\ taskSched = [t \in Tasks |-> 0]
  /\ taskState = [t \in Tasks |-> "none"]
  /\ cancelCount = [t \in Tasks |-> 0]
  /\ beforeEv = [t \in Tasks |-> 0]
  /\ afterEv = [t \in Tasks |-> 0]
  /\ afterErr = [t \in Tasks |-> "none"]
  /\ runs = [s \in Scheds |-> <<>>]
  /\ stoppedQueued = {}
  /\ ranQueued = {}
  /\ disposed = FALSE

\* ------------------------------------------------------------------ commands
\* The functions handed to onCommandDone, the arguments of run(), and the
\* Uris getFileTarget can come back with.
Listeners == {"l1", "l2", "l3"}
RunArgs == {"uriA", "uriB"}
Uris == {"u1", "u2"}

\* What a listener does when it is invoked: nothing more, or call the
\* unsubscribe function onCommandDone returned for the listener named.
ListenerBodies ==
  {b \in [Listeners -> {"nothing"} \cup Listeners] :
     Cardinality({l \in Listeners : b[l] /= "nothing"}) <= 1}

\* What getFileTarget(...args) settles with: undefined, one Uri, an array of
\* Uris, or a rejection.
FileTargets ==
  {[kind |-> "undefined", uris |-> <<>>], [kind |-> "rejects", uris |-> <<>>],
   [kind |-> "array", uris |-> <<>>]}
  \cup {[kind |-> "uri", uris |-> <<u>>] : u \in Uris}
  \cup {[kind |-> "array", uris |-> <<u, v>>] : u, v \in Uris}

\* The classes of command: createCommand's NormalCommand with a handleCommand
\* that returns, throws or is asynchronous; createFileCommand's FileCommand;
\* and any other subclass, whose doCommandRun returns, throws or rejects.
CommandClasses ==
  {[kind |-> "normal", behaviour |-> b] : b \in {"returns", "throws", "async"}}
  \cup {[kind |-> "file", behaviour |-> "async"]}
  \cup {[kind |-> "abstract", behaviour |-> b] : b \in {"returns", "throws", "rejects"}}

\* new Command(): _commandDoneListeners = [], nothing run yet.
NewCommand(class, bodies) ==
  [kind |-> class.kind, behaviour |-> class.behaviour, does |-> bodies,
   listeners |-> <<>>, handles |-> {}, pc |-> "idle", args |-> "none",
   runError |-> FALSE, work |-> "none", target |-> "none", targets |-> <<>>,
   tasks |-> <<>>,
   handled |-> <<>>, reported |-> 0, logged |-> 0, unhandled |-> 0,
   atFinish |-> <<>>, invoked |-> [l \in Listeners |-> 0],
   got |-> [l \in Listeners |-> "none"], workAtNotify |-> "none",
   tasksAtNotify |-> <<>>]

\* No command is under observation.
NoCommand == NewCommand([kind |-> "none", behaviour |-> "returns"],
                        [l \in Listeners |-> "nothing"])

\* No call of a merge function on its own is under observation.
NoMerge == [op |-> "none", done |-> FALSE]

Init ==
  /\ InitScheduler
  /\ InitConfig(MergedDefault(BaseConfig))
  /\ disk = [f \in {} |-> <<>>]
  /\ env = EmptyObject
  /\ merge = NoMerge
  /\ cmd = NoCommand

\* ------------------------------------------------------------------ operations
\* createTransferScheduler(concurrency)
CreateTransferScheduler(c) ==
  /\ schedConc' = Append(schedConc, SchedulerOptions(c).concurrency)
  /\ handleConc' = Append(handleConc, c)
  /\ transferSchedulers' = StoreScheduler(transferSchedulers, NumSched + 1)
  /\ UNCHANGED <<queue, running, pendingTransferTasks, nTasks, taskSched,
                 taskState, cancelCount, beforeEv, afterEv, afterErr, runs,
                 stoppedQueued, ranQueued>>
  /\ UNCHANGED <<disposed, cvars, merge, cmd>>

\* handle.add(task): scheduler.add(task) with autoStart false enqueues the task.
Add(s) ==
  /\ s \in Created
  /\ LET t == nTasks + 1 IN
       /\ nTasks' = t
       /\ queue' = [queue EXCEPT ![s] = Append(@, t)]
       /\ taskSched' = [taskSched EXCEPT ![t] = s]
       /\ taskState' = [taskState EXCEPT ![t] = "queued"]
  /\ UNCHANGED <<schedConc, handleConc, running, transferSchedulers,
                 pendingTransferTasks, cancelCount, beforeEv, afterEv, afterErr,
                 runs, stoppedQueued, ranQueued>>
  /\ UNCHANGED <<disposed, cvars, merge, cmd>>

\* handle.stop(): scheduler.empty() discards the queued tasks; the running
\* ones go on.
Stop(s) ==
  /\ s \in Created
  /\ queue' = [queue EXCEPT ![s] = SchedulerEmpty(@)]
  /\ taskState' = [t \in Tasks |->
                    IF t \in SeqToSet(queue[s]) THEN "dropped" ELSE taskState[t]]
  /\ UNCHANGED <<schedConc, handleConc, running, transferSchedulers,
                 pendingTransferTasks, nTasks, taskSched, cancelCount, beforeEv,
                 afterEv, afterErr, runs, stoppedQueued, ranQueued>>
  /\ UNCHANGED <<disposed, cvars, merge, cmd>>

\* run() on a scheduler with no work:
\*   this._removeScheduler(transferScheduler); return Promise.resolve()
RunEmpty(list, s) ==
  IF HasRemoveScheduler
  THEN [list |-> RemoveScheduler(list, s),
        run |-> [work |-> FALSE, state |-> "resolved", start |-> FALSE,
                 registered |-> 0, fired |-> 0]]
  ELSE [list |-> list,
        run |-> [work |-> FALSE, state |-> "threw", start |-> FALSE,
                 registered |-> 0, fired |-> 0]]

\* scheduler.start(): the queued tasks that are dispatched at once.
SchedulerStart(q, r, c) == Dispatched(q, r, c)

\* Variant: the executor registers its idle observer twice.
RunWorkTwoObservers(size, q, r, c) ==
  [run |-> [work |-> size > 0, state |-> "pending", start |-> TRUE,
            registered |-> 2, fired |-> 0],
   dispatched |-> SchedulerStart(q, r, c)]

\* Variant: the executor registers its idle observer and never starts the scheduler.
RunWorkNoStart(size, q, r, c) ==
  [run |-> [work |-> size > 0, state |-> "pending", start |-> FALSE,
            registered |-> 1, fired |-> 0],
   dispatched |-> <<>>]

\* run() on a scheduler with work (size tasks, q queued, r running, limit c)
\* returns a new promise whose executor registers one idle observer
\* (scheduler.onIdle(cb)) and starts the scheduler.
RunWork(size, q, r, c) ==
  [run |-> [work |-> size > 0, state |-> "pending", start |-> TRUE,
            registered |-> 1, fired |-> 0],
   dispatched |-> SchedulerStart(q, r, c)]

\* The idle observer of a run(): this._removeScheduler(transferScheduler); resolve()
IdleCallback(list, s, r) ==
  IF HasRemoveScheduler
  THEN [list |-> RemoveScheduler(list, s),
        run |-> [r EXCEPT !.state = "resolved", !.fired = @ + 1]]
  ELSE [list |-> list,
        run |-> [r EXCEPT !.state = "cbThrew", !.fired = @ + 1]]

\* The idle notification of scheduler s, whose run() calls so far are rs:
\* every registered observer that has not fired yet is invoked once.
RECURSIVE FireIdle(_, _, _, _)
FireIdle(list, rs, s, i) ==
  IF i > Len(rs) THEN [list |-> list, runs |-> rs]
  ELSE IF rs[i].fired < rs[i].registered
       THEN LET res == IdleCallback(list, s, rs[i]) IN
              FireIdle(res.list, [rs EXCEPT ![i] = res.run], s, i)
       ELSE FireIdle(list, rs, s, i + 1)

\* handle.run()
Run(s) ==
  /\ s \in Created
  /\ IF SchedulerSize(s) <= 0
     THEN LET res == RunEmpty(transferSchedulers, s) IN
            /\ transferSchedulers' = res.list
            /\ runs' = [runs EXCEPT ![s] = Append(@, res.run)]
            /\ UNCHANGED <<queue, running, pendingTransferTasks, taskState,
                           beforeEv, ranQueued>>
     ELSE LET res == RunWork(SchedulerSize(s), queue[s], running[s], schedConc[s])
              d == res.dispatched
              fs == StartAll(FsView, d)
          IN
            /\ runs' = [runs EXCEPT ![s] = Append(@, res.run)]
            /\ queue' = [queue EXCEPT ![s] = SubSeq(@, Len(d) + 1, Len(@))]
            /\ running' = [running EXCEPT ![s] = @ \cup SeqToSet(d)]
            /\ taskState' = [t \in Tasks |->
                              IF t \in SeqToSet(d) THEN "running" ELSE taskState[t]]
            /\ pendingTransferTasks' = fs.pending
            /\ beforeEv' = fs.before
            /\ ranQueued' = ranQueued \cup SeqToSet(queue[s])
            /\ UNCHANGED transferSchedulers
  /\ UNCHANGED <<schedConc, handleConc, nTasks, taskSched, cancelCount, afterEv,
                 afterErr, stoppedQueued>>
  /\ UNCHANGED <<disposed, cvars, merge, cmd>>

\* The outcome of a task that completes with error argument e.
Outcome(t, e) ==
  IF e = "err" THEN "failed"
  ELSE IF cancelCount[t] > 0 THEN "cancelled" ELSE "succeeded"

\* A running task completes, with an error (e = "err") or without (e = "null").
\* The scheduler frees the slot, notifies its onTaskDone observers, dispatches
\* the next queued task if there is one, and notifies its idle observers when
\* nothing is queued or running any more.
Complete(t, e) ==
  /\ t \in Tasks
  /\ taskState[t] = "running"
  /\ LET s == taskSched[t]
         c == schedConc[s]
         r1 == running[s] \ {t}
         fs1 == OnTaskDoneHandler(FsView, e, t)
         d == Dispatched(queue[s], r1, c)
         fs2 == StartAll(fs1, d)
         r2 == r1 \cup SeqToSet(d)
         q2 == Remaining(queue[s], r1, c)
         idle == IF q2 = <<>> /\ r2 = {}
                 THEN FireIdle(transferSchedulers, runs[s], s, 1)
                 ELSE [list |-> transferSchedulers, runs |-> runs[s]]
     IN
       /\ running' = [running EXCEPT ![s] = r2]
       /\ queue' = [queue EXCEPT ![s] = q2]
       /\ taskState' = [x \in Tasks |->
                         IF x = t THEN Outcome(t, e)
                         ELSE IF x \in SeqToSet(d) THEN "running" ELSE taskState[x]]
       /\ pendingTransferTasks' = fs2.pending
       /\ beforeEv' = fs2.before
       /\ afterEv' = fs2.after
       /\ afterErr' = fs2.err
       /\ transferSchedulers' = idle.list
       /\ runs' = [runs EXCEPT ![s] = idle.runs]
  /\ UNCHANGED <<schedConc, handleConc, nTasks, taskSched, cancelCount,
                 stoppedQueued, ranQueued>>
  /\ UNCHANGED <<disposed, cvars, merge, cmd>>

\* The queued tasks of the schedulers in the active list.
QueuedInActive ==
  UNION {SeqToSet(queue[transferSchedulers[i]]) : i \in 1..Len(transferSchedulers)}

\* Variant: the schedulers are not stopped.
CancelQueuesNoStop(list, q) == q

\* Variant: the pending set is not cleared.
CancelPendingNoClear(pending) == pending

\* cancelTransferTasks(), statement by statement:
\*   this._transferSchedulers.forEach(transfer => transfer.stop())
CancelQueues(list, q) ==
  [s \in Scheds |-> IF s \in SeqToSet(list) THEN SchedulerEmpty(q[s]) ELSE q[s]]
\*   this._transferSchedulers.length = 0
CancelList(list) == <<>>
\*   this._pendingTransferTasks.forEach(t => t.cancel())
CancelCounts(pending, cc) ==
  [t \in Tasks |-> IF t \in pending THEN cc[t] + 1 ELSE cc[t]]
\*   this._pendingTransferTasks.clear()
CancelPending(pending) == {}

CancelTransferTasks ==
  /\ queue' = CancelQueues(transferSchedulers, queue)
  /\ transferSchedulers' = CancelList(transferSchedulers)
  /\ cancelCount' = CancelCounts(pendingTransferTasks, cancelCount)
  /\ pendingTransferTasks' = CancelPending(pendingTransferTasks)
  /\ taskState' = [t \in Tasks |->
                    IF taskState[t] = "queued" /\ t \notin SeqToSet(queue'[taskSched[t]])
                    THEN "dropped" ELSE taskState[t]]
  /\ stoppedQueued' = stoppedQueued \cup QueuedInActive
  /\ UNCHANGED <<schedConc, handleConc, running, nTasks, taskSched,
                 beforeEv, afterEv, afterErr, runs, ranQueued>>
  /\ UNCHANGED <<disposed, cvars, merge, cmd>>

\* dispose(): this._disposeWatcher() and this._disposeFileSystem(), which
\* removes the remote file system of getHostInfo(this.getConfig()).  The
\* schedulers and the pending set are not touched.
Dispose ==
  /\ ~disposed
  /\ disposed' = TRUE
  /\ fsCache' = GetConfigResult(fsConfig, Undef, stateProfile, configValidator,
                                fsCache, disk, env).cache
  /\ UNCHANGED <<schedConc, handleConc, queue, running, transferSchedulers,
                 pendingTransferTasks, nTasks, taskSched, taskState, cancelCount,
                 beforeEv, afterEv, afterErr, runs, stoppedQueued, ranQueued>>
  /\ UNCHANGED <<fsConfig, stateProfile, configValidator, disk, env, lastCall,
                 lastResult, merge, cmd>>

\* Variant: the configuration is resolved in place, in the stored object.
GetConfigInPlace(arg) ==
  \E res \in {GetConfigResult(fsConfig, arg, stateProfile, configValidator,
                              fsCache, disk, env)} :
     /\ lastCall' = [called |-> TRUE, arg |-> arg,
                     useProfile |-> UseProfile(arg, stateProfile),
                     validator |-> configValidator, cache |-> fsCache,
                     repeated |-> lastCall.called /\ lastCall.arg = arg,
                     complete |-> [ok |-> FALSE, v |-> EmptyObject]]
     /\ lastResult' = [ok |-> res.ok, err |-> res.err, config |-> res.v]
     /\ fsCache' = res.cache
     /\ fsConfig' = IF res.ok
                    THEN Assign(Assign(fsConfig, "port", res.v["port"]),
                                "concurrency", res.v["concurrency"])
                    ELSE fsConfig
     /\ UNCHANGED <<stateProfile, configValidator, disk, env>>
     /\ UNCHANGED <<svars, merge, cmd>>

\* getConfig(useProfile)
GetConfig(arg) ==
  \E complete \in {CompleteConfig(fsConfig, arg, stateProfile, fsCache, disk, env)} :
  \E res \in {ValidateAndResolve(complete, configValidator, disk)} :
     /\ lastCall' = [called |-> TRUE, arg |-> arg,
                     useProfile |-> UseProfile(arg, stateProfile),
                     validator |-> configValidator, cache |-> fsCache,
                     repeated |-> lastCall.called /\ lastCall.arg = arg,
                     complete |-> [ok |-> complete.ok, v |-> complete.v]]
     /\ lastResult' = [ok |-> res.ok, err |-> res.err, config |-> res.v]
     /\ fsCache' = res.cache
     /\ UNCHANGED <<fsConfig, stateProfile, configValidator, disk, env>>
     /\ UNCHANGED <<svars, merge, cmd>>

\* app.state.profile = p (the profile commands of the extension)
SetProfile(p) ==
  /\ stateProfile # p
  /\ stateProfile' = p
  /\ UNCHANGED <<fsConfig, configValidator, fsCache, disk, env>>
  /\ lastCall' = NoCall /\ lastResult' = NoResult
  /\ UNCHANGED <<svars, merge, cmd>>

\* setConfigValidator(validator)
SetConfigValidator(v) ==
  /\ configValidator # v
  /\ configValidator' = v
  /\ UNCHANGED <<fsConfig, stateProfile, fsCache, disk, env>>
  /\ lastCall' = NoCall /\ lastResult' = NoResult
  /\ UNCHANGED <<svars, merge, cmd>>

\* The environment changes a file: it is deleted, created or edited.
ChangeFile(f) ==
  /\ \/ Has(disk, f) /\ disk' = Delete(disk, f)
     \/ \E c \in FileContents(f) :
          /\ ~(Has(disk, f) /\ disk[f] = c)
          /\ disk' = Assign(disk, f, c)
  /\ UNCHANGED <<fsConfig, stateProfile, configValidator, fsCache, env>>
  /\ lastCall' = NoCall /\ lastResult' = NoResult
  /\ UNCHANGED <<svars, merge, cmd>>

\* The environment changes process.env: the variable is set or unset.
SetEnv(e) ==
  /\ env # e
  /\ env' = e
  /\ UNCHANGED <<fsConfig, stateProfile, configValidator, fsCache, disk>>
  /\ lastCall' = NoCall /\ lastResult' = NoResult
  /\ UNCHANGED <<svars, merge, cmd>>

\* The operations of a FileService on its schedulers, with at most
\* MaxObjects schedulers, tasks, run() calls and dispose() calls together.
Next ==
  \/ \E c \in ConcurrencyInputs : Objects < MaxObjects /\ CreateTransferScheduler(c)
  \/ \E s \in Scheds : Objects < MaxObjects /\ Add(s)
  \/ \E s \in Scheds : Objects < MaxObjects /\ Run(s)
  \/ \E s \in Scheds : Stop(s)
  \/ \E t \in Tasks, e \in Outcomes : Complete(t, e)
  \/ CancelTransferTasks
  \/ Objects < MaxObjects /\ Dispose

Spec == Init /\ [][Next]_vars

\* Every running task eventually completes, with an error or without.
TasksComplete == \A t \in Tasks : WF_vars(\E e \in Outcomes : Complete(t, e))

FairSpec == Init /\ [][Next]_vars /\ TasksComplete

\* One batch: a single scheduler, its tasks added before it is run, run once;
\* every running task eventually completing.
NextLive ==
  \/ \E c \in ConcurrencyInputs : NumSched = 0 /\ CreateTransferScheduler(c)
  \/ \E s \in Scheds : nTasks < LiveTasks /\ runs[s] = <<>> /\ Add(s)
  \/ \E s \in Scheds : NumRuns = 0 /\ Run(s)
  \/ \E s \in Scheds : Stop(s)
  \/ \E t \in Tasks, e \in Outcomes : Complete(t, e)
  \/ CancelTransferTasks

LiveSpec == Init /\ [][NextLive]_vars /\ TasksComplete

\* Configuration resolution of one FileService, for every raw configuration,
\* file system and environment.
ConfigInit ==
  /\ InitScheduler
  /\ \E config \in RawConfigs : InitConfig(config)
  /\ disk \in Disks
  /\ env \in Envs
  /\ merge = NoMerge
  /\ cmd = NoCommand

ConfigNext ==
  \/ \E arg \in ProfileArgs : GetConfig(arg)
  \/ \E p \in ActiveProfiles : SetProfile(p)
  \/ \E v \in Validators : SetConfigValidator(v)
  \/ \E f \in Files : ChangeFile(f)
  \/ \E e \in Envs : SetEnv(e)

ConfigSpec == ConfigInit /\ [][ConfigNext]_vars

\* ------------------------------------------------------------------ the merge functions
\* The values an `ignore` key has: arrays (empty, with repeated entries) and
\* a string, which is not an array.
IgnoreInputs == {<<>>, <<"a">>, <<"a", "b", "a">>, <<"<string>", "*.log">>}

\* Base configurations as readConfigsFromFile produces them.
MergeTargets ==
  {MergedDefault([host |-> "dev.example.com", username |-> "u", remotePath |-> "/r",
                  ignore |-> i]) : i \in IgnoreInputs}

\* Profiles.
MergeSources ==
  {Spread(k, i) :
     k \in {EmptyObject, [host |-> "p.example.com"],
            [username |-> "deploy", port |-> 2222]},
     i \in {EmptyObject} \cup {[ignore |-> x] : x \in IgnoreInputs}}

\* Configurations the SSH-config step is given.
SshMergeConfigs ==
  {MergedDefault(Spread(BaseConfig, x)) :
     x \in {EmptyObject,
            [username |-> "u"],
            [port |-> 2222],
            [username |-> "u", port |-> 2222, privateKeyPath |-> "/ws/id_rsa",
             keepalive |-> "30", connTimeout |-> "5"],
            [host |-> "other.example.com"]}}

\* Parsed SSH config files.
SshContents ==
  {SshConfigContent,
   <<[Host |-> "example.com",
      config |-> <<[param |-> "HostName", value |-> "real.example.com"],
                   [param |-> "Port", value |-> "2200"],
                   [param |-> "User", value |-> "sshuser"],
                   [param |-> "IdentityFile", value |-> "~/.ssh/id_ed25519"],
                   [param |-> "ServerAliveInterval", value |-> "60"],
                   [param |-> "ConnectTimeout", value |-> "20"]>>]>>,
   <<[Host |-> "elsewhere.example.com",
      config |-> <<[param |-> "HostName", value |-> "wrong.example.com"]>>],
     [Host |-> "example.com",
      config |-> <<[param |-> "", value |-> ""],
                   [param |-> "User", value |-> "first"],
                   [param |-> "user", value |-> "second"],
                   [param |-> "ProxyJump", value |-> "bastion"],
                   [param |-> "HostName", value |-> "h1.example.com"],
                   [param |-> "hostname", value |-> "h2.example.com"]>>]>>,
   <<[Host |-> "example.com",
      config |-> <<[param |-> "Port", value |-> "22"]>>]>>}

\* ---- the ignore predicate.  A path is the sequence of its segments.
\* String.prototype.startsWith on the two paths as strings: the path has
\* the segments of the base, the last of them possibly with further
\* characters ("/ws-other" starts with "/ws").
StringPrefixes(seg) == IF seg = "ws-other" THEN {"ws", "ws-other"} ELSE {seg}
StartsWith(p, base) ==
  /\ Len(p) >= Len(base)
  /\ \A i \in 1..(Len(base) - 1) : p[i] = base[i]
  /\ base # <<>> => base[Len(base)] \in StringPrefixes(p[Len(base)])

\* path.relative(from, to) and upath.relative(from, to) of absolute paths:
\* one ".." for every segment of `from` below the common directory, then
\* the segments of `to` below it; empty when the two are the same.
PathRelative(from, to) ==
  LET n == Max(0, CHOOSE k \in 0..Min(Len(from), Len(to)) :
                    /\ \A i \in 1..k : from[i] = to[i]
                    /\ k < Min(Len(from), Len(to)) => from[k + 1] # to[k + 1])
  IN [i \in 1..(Len(from) - n) |-> ".."] \o SubSeq(to, n + 1, Len(to))

\* ignore.ignores(relativePath) of the rule set Ignore.from(patterns), for
\* patterns that are plain names: a name matches at any depth.  The empty
\* path is not a path the rule set gives a usable verdict for (it reports it
\* as ignored), which is why the predicate tests for it first.
Ignores(patterns, relativePath) ==
  \/ relativePath = <<>>
  \/ \E i \in 1..Len(relativePath), j \in 1..Len(patterns) :
       relativePath[i] = patterns[j]

IgnoreFnIgnoresRoot(fn, baseDir, remotePath, fsPath) ==
  Ignores(fn.patterns, IF StartsWith(fsPath, baseDir)
                       THEN PathRelative(baseDir, fsPath)
                       ELSE PathRelative(remotePath, fsPath))

\* The predicate _createIgnoreFn returns, applied to fsPath.
IgnoreFn(fn, baseDir, remotePath, fsPath) ==
  LET relativePath == IF StartsWith(fsPath, baseDir)
                      THEN PathRelative(baseDir, fsPath)
                      ELSE PathRelative(remotePath, fsPath)
  IN relativePath # <<>> /\ Ignores(fn.patterns, relativePath)

\* Pattern lists, among them one that names the roots themselves, and paths
\* at, below and outside the local base directory and the remote path.
IgnorePatterns == {<<"node_modules">>, <<"ws", "site", "a">>, <<"b", "node_modules">>}
IgnoreBaseDir == <<"ws">>
IgnoreRemotePath == <<"srv", "site">>
IgnorePaths ==
  {<<"ws">>, <<"ws", "a">>, <<"ws", "c">>, <<"ws", "node_modules", "x">>,
   <<"ws", "src", "b">>, <<"ws-other", "a">>, <<"srv", "site">>,
   <<"srv", "site", "a">>, <<"srv", "site", "c">>,
   <<"srv", "site", "lib", "node_modules">>, <<"srv", "other", "a">>,
   <<"etc", "b">>}

\* applySelector: the selectors it is given, each by the value it returns
\* for an argument: undefined always, the empty string always, the argument
\* itself, the argument when it is "uriA" and undefined otherwise, a promise.
SelectorNames == {"undefined", "empty", "echo", "onlyA", "promise"}
SelectorArgs == {"uriA", "uriB"}
MaxSelectors == 3

SelectorLists ==
  UNION {[1..n -> SelectorNames] : n \in 0..MaxSelectors}

\* selector.apply(this, args)
SelectorResult(selector, args) ==
  CASE selector = "undefined" -> Undef
    [] selector = "empty" -> ""
    [] selector = "echo" -> args
    [] selector = "onlyA" -> IF args = "uriA" THEN args ELSE Undef
    [] OTHER -> "<promise>"

\* combinedSelector without the break: every selector is called.
RECURSIVE SelectFromNoBreak(_, _, _, _)
SelectFromNoBreak(selectors, args, k, st) ==
  IF k > Len(selectors) THEN st
  ELSE SelectFromNoBreak(selectors, args, k + 1,
         [result |-> SelectorResult(selectors[k], args),
          calls |-> Append(st.calls, [selector |-> k, args |-> args])])

\* The for loop of combinedSelector from selector k on: call the selector,
\* keep its result, stop when the result is truthy.
RECURSIVE SelectFrom(_, _, _, _)
SelectFrom(selectors, args, k, st) ==
  IF k > Len(selectors) THEN st
  ELSE IF Truthy(SelectorResult(selectors[k], args))
  THEN [result |-> SelectorResult(selectors[k], args),
        calls |-> Append(st.calls, [selector |-> k, args |-> args])]
  ELSE SelectFrom(selectors, args, k + 1,
         [result |-> SelectorResult(selectors[k], args),
          calls |-> Append(st.calls, [selector |-> k, args |-> args])])

CombinedSelectorNoBreak(selectors, args) ==
  SelectFromNoBreak(selectors, args, 1, [result |-> Undef, calls |-> <<>>])

\* applySelector(...selectors)(...args): the result, and the calls made.
CombinedSelector(selectors, args) ==
  SelectFrom(selectors, args, 1, [result |-> Undef, calls |-> <<>>])

MergeInputs ==
  {[op |-> "mergeProfile", done |-> FALSE, source |-> src,
    target |-> Assign(t, "profiles", [prod |-> src]),
    result |-> EmptyObject, targetAfter |-> EmptyObject] :
     t \in MergeTargets, src \in MergeSources}
  \cup
  {[op |-> "sshConfig", done |-> FALSE, config |-> c, content |-> x,
    result |-> EmptyObject] : c \in SshMergeConfigs, x \in SshContents}
  \cup
  {[op |-> "ignoreFn", done |-> FALSE, fn |-> CreateIgnoreFn(ps), path |-> fsPath,
    result |-> FALSE] : ps \in IgnorePatterns, fsPath \in IgnorePaths}
  \cup
  {[op |-> "applySelector", done |-> FALSE, selectors |-> ss, args |-> a,
    result |-> Undef, calls |-> <<>>] : ss \in SelectorLists, a \in SelectorArgs}

\* getConfig("prod") up to mergeProfile, for a configuration that declares
\* the profile prod.
ApplyProfile ==
  /\ merge.op = "mergeProfile"
  /\ ~merge.done
  /\ merge' = [merge EXCEPT
                 !.done = TRUE,
                 !.result = SelectProfile(merge.target, "prod").config,
                 !.targetAfter = MergeProfileTarget(merge.target, merge.source)]
  /\ UNCHANGED <<svars, cvars, cmd>>

\* The SSH-config step of mergeConfigWithExternalRefer, on a file that is
\* read from disk.
ApplySshConfig ==
  /\ merge.op = "sshConfig"
  /\ ~merge.done
  /\ merge' = [merge EXCEPT
                 !.done = TRUE,
                 !.result =
                   MergeSshConfig(merge.config, ReplaceHomePath(DEFAULT_SSHCONFIG_FILE),
                                  <<>>,
                                  [f \in {ReplaceHomePath(DEFAULT_SSHCONFIG_FILE)} |->
                                     merge.content]).v]
  /\ UNCHANGED <<svars, cvars, cmd>>

\* A call of the predicate that _createIgnoreFn compiled from a non-empty
\* pattern list.
ApplyIgnoreFn ==
  /\ merge.op = "ignoreFn"
  /\ ~merge.done
  /\ merge' = [merge EXCEPT
                 !.done = TRUE,
                 !.result = IgnoreFn(merge.fn, IgnoreBaseDir, IgnoreRemotePath,
                                     merge.path)]
  /\ UNCHANGED <<svars, cvars, cmd>>

\* A call of the function applySelector returned.
ApplySelector ==
  /\ merge.op = "applySelector"
  /\ ~merge.done
  /\ \E res \in {CombinedSelector(merge.selectors, merge.args)} :
       merge' = [merge EXCEPT !.done = TRUE, !.result = res.result,
                              !.calls = res.calls]
  /\ UNCHANGED <<svars, cvars, cmd>>

MergeInit ==
  /\ InitScheduler
  /\ InitConfig(MergedDefault(BaseConfig))
  /\ disk = [f \in {} |-> <<>>]
  /\ env = EmptyObject
  /\ merge \in MergeInputs
  /\ cmd = NoCommand

MergeNext == ApplyProfile \/ ApplySshConfig \/ ApplyIgnoreFn \/ ApplySelector

MergeSpec == MergeInit /\ [][MergeNext]_vars

\* ------------------------------------------------------------------ Command
\* indexOf(listener): the first position of the listener, 0 when absent.
IndexOfListener(list, l) ==
  IF \E i \in 1..Len(list) : list[i] = l
  THEN CHOOSE i \in 1..Len(list) :
         list[i] = l /\ \A j \in 1..(i - 1) : list[j] /= l
  ELSE 0

\* The function onCommandDone returns: splice(index, 1) when index > -1.
RemoveListener(list, l) ==
  IF IndexOfListener(list, l) > 0
  THEN SubSeq(list, 1, IndexOfListener(list, l) - 1)
         \o SubSeq(list, IndexOfListener(list, l) + 1, Len(list))
  ELSE list

\* listener(...args): the listener receives the arguments of run() and may
\* call an unsubscribe function.
InvokeListener(c, l) ==
  [c EXCEPT !.invoked[l] = @ + 1,
            !.got[l] = c.args,
            !.listeners = IF c.does[l] = "nothing" THEN @
                          ELSE RemoveListener(@, c.does[l])]

\* Array.prototype.forEach: it visits the indices below the length the array
\* had at the start, in order, reads the array as it is when an index is
\* reached, and skips an index the array no longer has.
RECURSIVE ForEachListener(_, _, _)
ForEachListener(c, k, len) ==
  IF k > len THEN c
  ELSE IF k > Len(c.listeners) THEN ForEachListener(c, k + 1, len)
  ELSE ForEachListener(InvokeListener(c, c.listeners[k]), k + 1, len)

\* The handler's work that is still going on: a pending handleCommand
\* promise, a pending handleFile promise.
WorkInProgress(c) ==
  \/ c.work = "pending"
  \/ \E i \in 1..Len(c.tasks) : c.tasks[i] = "pending"

\* commitCommandDone(...args)
CommitCommandDone(c) ==
  ForEachListener([c EXCEPT !.atFinish = c.listeners,
                            !.workAtNotify = c.work,
                            !.tasksAtNotify = c.tasks],
                  1, Len(c.listeners))

\* Promise.all(pendingTasks) settles early: on the first task that failed.
DoCommandRunSettledOnFailure(c) ==
  \/ \A i \in 1..Len(c.tasks) : c.tasks[i] /= "pending"
  \/ \E i \in 1..Len(c.tasks) : c.tasks[i] = "rejected"

\* The promise run() awaits has settled: that of Promise.all(pendingTasks) in
\* a FileCommand, whose tasks never reject; the value doCommandRun returned
\* in the other classes.
DoCommandRunSettled(c) ==
  \A i \in 1..Len(c.tasks) : c.tasks[i] /= "pending"

\* command.onCommandDone(listener). Each function is registered once.
OnCommandDone(l) ==
  /\ cmd.kind /= "none"
  /\ cmd.pc /= "done"
  /\ l \notin cmd.handles
  /\ cmd' = [cmd EXCEPT !.listeners = Append(@, l), !.handles = @ \cup {l}]
  /\ UNCHANGED <<svars, cvars, merge>>

\* A call, from outside a notification, of the function onCommandDone
\* returned for listener l.
Unsubscribe(l) ==
  /\ cmd.pc /= "done"
  /\ l \in cmd.handles
  /\ cmd' = [cmd EXCEPT !.listeners = RemoveListener(@, l)]
  /\ UNCHANGED <<svars, cvars, merge>>

\* command.run(...args) up to its await: doCommandRun is called. A
\* NormalCommand calls handleCommand, catches and logs what it throws, and
\* returns undefined whatever handleCommand returned; a FileCommand calls
\* getFileTarget and awaits it.
RunCommand(a) ==
  /\ cmd.kind /= "none"
  /\ cmd.pc = "idle"
  /\ cmd' =
       [cmd EXCEPT
          !.args = a,
          !.pc = IF cmd.kind = "file" THEN "target" ELSE "running",
          !.work = CASE cmd.kind = "file" -> "none"
                     [] cmd.behaviour = "returns" -> "finished"
                     [] cmd.behaviour = "throws" -> "threw"
                     [] cmd.behaviour = "rejects" -> "rejected"
                     [] OTHER -> "pending",
          !.logged = IF cmd.kind = "normal" /\ cmd.behaviour = "throws"
                     THEN @ + 1 ELSE @,
          !.runError = cmd.kind = "abstract" /\ cmd.behaviour /= "returns"]
  /\ UNCHANGED <<svars, cvars, merge>>

\* FileCommand.doCommandRun once getFileTarget has settled with t: nothing
\* more without a target, reportError on a rejection, else handleFile is
\* called for every Uri of the target list.
GetFileTargetSettles(t) ==
  /\ cmd.pc = "target"
  /\ cmd' =
       [cmd EXCEPT
          !.pc = "running",
          !.reported = IF t.kind = "rejects" THEN @ + 1 ELSE @,
          !.target = t.kind,
          !.targets = t.uris,
          !.tasks = [i \in 1..Len(t.uris) |-> "pending"],
          !.handled = [i \in 1..Len(t.uris) |-> 1]]
  /\ UNCHANGED <<svars, cvars, merge>>

\* The promise of handleFile for target i settles; a rejection is caught
\* and handed to reportError.
HandleFileSettles(i, outcome) ==
  /\ cmd.pc = "running"
  /\ i \in 1..Len(cmd.tasks)
  /\ cmd.tasks[i] = "pending"
  /\ cmd' = [cmd EXCEPT !.tasks[i] = outcome,
                        !.reported = IF outcome = "rejected" THEN @ + 1 ELSE @]
  /\ UNCHANGED <<svars, cvars, merge>>

\* The promise an asynchronous handleCommand returned settles. Nothing holds
\* that promise: a rejection has no handler.
HandleCommandSettles(outcome) ==
  /\ cmd.kind = "normal"
  /\ cmd.work = "pending"
  /\ cmd' = [cmd EXCEPT !.work = outcome,
                        !.unhandled = IF outcome = "rejected" THEN @ + 1 ELSE @]
  /\ UNCHANGED <<svars, cvars, merge>>

\* run() after its await: reportError for what doCommandRun threw or
\* rejected with, then commitCommandDone.
FinishCommand ==
  /\ cmd.pc = "running"
  /\ DoCommandRunSettled(cmd)
  /\ cmd' = CommitCommandDone(
              [cmd EXCEPT !.pc = "done",
                          !.reported = IF cmd.runError THEN @ + 1 ELSE @])
  /\ UNCHANGED <<svars, cvars, merge>>

\* One command of every class, with every choice of listener bodies.
CommandInit ==
  /\ InitScheduler
  /\ InitConfig(MergedDefault(BaseConfig))
  /\ disk = [f \in {} |-> <<>>]
  /\ env = EmptyObject
  /\ merge = NoMerge
  /\ cmd \in {NewCommand(class, bodies) :
                class \in CommandClasses, bodies \in ListenerBodies}

CommandNext ==
  \/ \E l \in Listeners : OnCommandDone(l)
  \/ \E l \in Listeners : Unsubscribe(l)
  \/ \E a \in RunArgs : RunCommand(a)
  \/ \E t \in FileTargets : GetFileTargetSettles(t)
  \/ \E i \in 1..2, o \in {"resolved", "rejected"} : HandleFileSettles(i, o)
  \/ \E o \in {"resolved", "rejected"} : HandleCommandSettles(o)
  \/ FinishCommand

CommandSpec == CommandInit /\ [][CommandNext]_vars

TypeOK ==
  /\ Objects <= Max(MaxObjects, LiveTasks + 2)
  /\ \A s \in Scheds : SeqToSet(queue[s]) \subseteq Tasks /\ running[s] \subseteq Tasks
  /\ pendingTransferTasks \subseteq Tasks
  /\ SeqToSet(transferSchedulers) \subseteq Created

\* ------------------------------------------------------------------ properties
\* The tasks of scheduler s that are running: BEFORE_TRANSFER emitted,
\* AFTER_TRANSFER not yet.
RunningTasks(s) ==
  {t \in Tasks : taskSched[t] = s /\ beforeEv[t] > 0 /\ afterEv[t] = 0}

Completed(t) == taskState[t] \in {"succeeded", "failed", "cancelled"}
Terminal(t) == Completed(t) \/ taskState[t] = "dropped"
WasDispatched(t) == taskState[t] = "running" \/ Completed(t)
Active(s) == s \in SeqToSet(transferSchedulers)


\* C1: in every reachable state, the number of running tasks of a scheduler
\* is at most the concurrency createTransferScheduler was called with.
C1_ConcurrencyBound ==
  \A s \in Created : Cardinality(RunningTasks(s)) <= handleConc[s]

\* The limit is reached while more work is queued.
C1_Witness ==
  \E s \in Created :
    Cardinality(RunningTasks(s)) = handleConc[s] /\ queue[s] # <<>>

\* C2: a cancelTransferTasks() call leaves the pending set and the active
\* list empty, and a task that was queued in an active scheduler at a
\* cancelTransferTasks() call is never started.
C2_CancelStopsQueued ==
  /\ [][CancelTransferTasks =>
          (pendingTransferTasks' = {} /\ transferSchedulers' = <<>>)]_vars
  /\ [](\A t \in stoppedQueued : beforeEv[t] = 0 /\ ~WasDispatched(t))

\* A task was running and another queued behind it when the transfer was
\* cancelled; the running one has completed since.
C2_Witness ==
  \E t \in stoppedQueued, u \in Tasks :
    /\ taskSched[u] = taskSched[t]
    /\ cancelCount[u] = 1
    /\ Completed(u)

\* C3 (as claimed): a run() of a scheduler with work resolves exactly when the
\* scheduler has become idle, and from then on the scheduler is not in the
\* active list.
C3_RunResolvesOnceIdle ==
  \A s \in Created : \A i \in 1..Len(runs[s]) :
    runs[s][i].work =>
      /\ (runs[s][i].state = "resolved") <=> (runs[s][i].fired > 0)
      /\ runs[s][i].fired > 0 => ~Active(s)

\* C4 (as claimed): a run() of a scheduler with no work resolves at once,
\* does not start the scheduler and removes it from the active list.
C4_RunEmptyResolves ==
  \A s \in Created : \A i \in 1..Len(runs[s]) :
    ~runs[s][i].work =>
      /\ runs[s][i].state = "resolved"
      /\ ~runs[s][i].start
      /\ ~Active(s)

\* C5: cancelTransferTasks() with no active scheduler and no pending task
\* changes nothing; every call leaves exactly that state (empty list, empty
\* pending set), so a second call in a row changes nothing; no task ever
\* receives cancel() twice.
C5_CancelIdempotent ==
  [][/\ CancelTransferTasks =>
          /\ (transferSchedulers = <<>> /\ pendingTransferTasks = {})
                => UNCHANGED vars
          /\ (transferSchedulers' = <<>> /\ pendingTransferTasks' = {})
     /\ \A t \in Tasks : cancelCount'[t] <= 1]_vars

\* A cancelTransferTasks() has cancelled a running task, which is still
\* running, and a second call has nothing left to cancel.
C5_Witness ==
  /\ transferSchedulers = <<>> /\ pendingTransferTasks = {}
  /\ \E t \in Tasks : cancelCount[t] = 1 /\ taskState[t] = "running"

C7_AllTerminate ==
  /\ []<>(\A t \in ranQueued : Terminal(t))
  /\ [](\A s \in Created : Cardinality(running[s]) <= handleConc[s])

\* Five tasks given to a scheduler of concurrency 2 before run() have all completed.
C7_Witness ==
  \E s \in Created :
    /\ handleConc[s] = 2
    /\ \A t \in 1..5 : taskSched[t] = s /\ t \in ranQueued /\ Completed(t)

\* C8: when a task fails, exactly one AFTER_TRANSFER event carries its error,
\* the first queued task of its scheduler is dispatched, and the tasks and
\* queues of the other schedulers do not change.
C8_ErrorDoesNotHalt ==
  [][\A t \in Tasks :
       (taskState[t] = "running" /\ taskState'[t] = "failed") =>
         LET s == taskSched[t] IN
           /\ afterEv'[t] = 1 /\ afterEv[t] = 0 /\ afterErr'[t] = "err"
           /\ queue[s] # <<>> =>
                /\ taskState'[Head(queue[s])] = "running"
                /\ beforeEv'[Head(queue[s])] = 1
           /\ \A o \in Scheds \ {s} : queue'[o] = queue[o] /\ running'[o] = running[o]
           /\ \A u \in Tasks : taskSched[u] # s => taskState'[u] = taskState[u]]_vars

\* A task failed and the task queued behind it was dispatched.
C8_Witness ==
  \E t, u \in Tasks :
    /\ t < u /\ taskSched[t] \in Created /\ taskSched[t] = taskSched[u]
    /\ handleConc[taskSched[t]] = 1 /\ Len(runs[taskSched[t]]) = 1
    /\ taskState[t] = "failed" /\ afterErr[t] = "err"
    /\ WasDispatched(u)

\* C9: a task has exactly one BEFORE_TRANSFER event once dispatched and none
\* before, exactly one AFTER_TRANSFER event once completed and none before,
\* and never an AFTER_TRANSFER without a BEFORE_TRANSFER; cancelled tasks too.
C9_OneBeforeOneAfter ==
  \A t \in Tasks :
    /\ beforeEv[t] = IF WasDispatched(t) THEN 1 ELSE 0
    /\ afterEv[t] = IF Completed(t) THEN 1 ELSE 0
    /\ afterEv[t] <= beforeEv[t]

\* A task cancelled while running has completed and had its AFTER_TRANSFER.
C9_Witness ==
  \E t \in Tasks : cancelCount[t] = 1 /\ Completed(t) /\ afterEv[t] = 1

\* ------------------------------------------------------------------ C10
\* The profiles the raw configuration declares.
DeclaredProfiles(config) ==
  IF Has(config, "profiles") THEN DOMAIN config["profiles"] ELSE {}

\* C10: getConfig fails with an error whenever the requested (or, by default,
\* the active) profile name is not one of the profiles the raw configuration
\* declares, whatever the raw configuration is: also one with no profiles or
\* with an empty profiles mapping.
C10_UnknownProfileFails ==
  (/\ lastCall.called
   /\ Truthy(lastCall.useProfile)
   /\ lastCall.useProfile \notin DeclaredProfiles(fsConfig))
    => ~lastResult.ok

\* The validator installed at the last getConfig call rejects the merged
\* configuration: the configuration breaks the schema (host or username is
\* missing).
ValidatorRejects ==
  /\ lastCall.called
  /\ lastCall.validator # "none"
  /\ lastCall.complete.ok
  /\ SchemeError(lastCall.complete.v)

\* The validator installed at the last getConfig call returned no error
\* payload for the merged configuration.
ValidatorReturnsNothing ==
  /\ lastCall.called
  /\ lastCall.validator # "none"
  /\ lastCall.complete.ok
  /\ ValidatorResult(lastCall.validator, lastCall.complete.v).isUndefined

\* C11: when a validator is installed and it rejects the merged
\* configuration (host or username missing), the getConfig call fails and
\* returns no resolved configuration.
C11_RejectedConfigFails ==
  ValidatorRejects => ~lastResult.ok

\* C12: when a validator is installed and it returns no error payload, the
\* getConfig call does not fail on validation: it goes on to resolve the
\* configuration.
C12_AcceptedConfigResolves ==
  ValidatorReturnsNothing => lastResult.err # "ValidationFailed"

\* The result of getConfig(arg) computed from the external state alone: the
\* files on disk, process.env and the active profile, with nothing
\* remembered from earlier calls.
FreshResult(arg) ==
  Bind(GetConfigResult(fsConfig, arg, stateProfile, configValidator, <<>>, disk, env),
       LAMBDA res : [ok |-> res.ok, err |-> res.err, config |-> res.v])

\* C13: the result of every getConfig call is the one computed from the
\* external state current at the call (SSH-config file contents, ignore-file
\* contents, environment variable, active profile), whatever earlier calls
\* saw.
C13_RecomputedEachCall ==
  [][\A arg \in ProfileArgs : GetConfig(arg) => lastResult' = FreshResult(arg)]_vars

\* The last getConfig call reached filesIgnoredFromConfig with an ignoreFile
\* that the cache did not hold when the call was made.
IgnoreFileUncached ==
  /\ lastCall.called
  /\ lastCall.complete.ok
  /\ TruthyKey(lastCall.complete.v, "ignoreFile")
  /\ ~CacheHas(lastCall.cache, lastCall.complete.v["ignoreFile"])
  /\ lastResult.err # "ValidationFailed"

\* C14: when the configured ignoreFile is not in the cache and not on disk,
\* the getConfig call fails; when it is not in the cache and is on disk (and
\* can be read), the call succeeds and the cache then holds the content of
\* the file under its path.
C14_MissingIgnoreFileFatal ==
  IgnoreFileUncached =>
    LET f == lastCall.complete.v["ignoreFile"] IN
      /\ ~Has(disk, f) => ~lastResult.ok /\ lastResult.err = "IgnoreFileNotFound"
      /\ Has(disk, f) /\ disk[f] # Unreadable =>
            /\ lastResult.ok
            /\ CacheHas(fsCache, f)
            /\ CacheValue(fsCache, f) = disk[f]

\* A call has failed on an ignore file that is neither cached nor on disk.
C14_Witness ==
  /\ IgnoreFileUncached
  /\ ~Has(disk, lastCall.complete.v["ignoreFile"])
  /\ lastResult.err = "IgnoreFileNotFound"

\* A call has read an uncached ignore file from disk and cached it.
C14_WitnessCached ==
  /\ IgnoreFileUncached
  /\ Has(disk, lastCall.complete.v["ignoreFile"])
  /\ lastResult.ok
  /\ CacheHas(fsCache, lastCall.complete.v["ignoreFile"])

\* The configuration the SSH-config step of the last getConfig call started
\* from: the base configuration with the profile and the external remote
\* merged in.
PreviousLayers ==
  Bind(SelectProfile(fsConfig, lastCall.useProfile).config, LAMBDA c :
    IF TruthyKey(c, "remote") /\ Has(RemoteSettings, c["remote"])
    THEN MergeRemote(c, RemoteSettings[c["remote"]]) ELSE c)

\* The path of the SSH config file of the last getConfig call.
SshConfigPathOf(config) ==
  ReplaceHomePath(IF TruthyKey(config, "sshConfigPath")
                  THEN config["sshConfigPath"] ELSE DEFAULT_SSHCONFIG_FILE)

\* The keys the SSH-config step can set.
SshTargets == {SshKeyMapping(param) : param \in SshKeys}

\* The last getConfig call was for an sftp configuration and could not read
\* its SSH config file: the file was neither cached nor on disk.
SshConfigUnreadable ==
  /\ lastCall.called
  /\ SelectProfile(fsConfig, lastCall.useProfile).ok
  /\ PreviousLayers["protocol"] = "sftp"
  /\ ~CacheHas(lastCall.cache, SshConfigPathOf(PreviousLayers))
  /\ ~Has(disk, SshConfigPathOf(PreviousLayers))

\* C15: when the SSH config file of an sftp configuration cannot be read,
\* the getConfig call does not fail for it (it succeeds unless the
\* environment variable, the ignore file or the validation fails it), and
\* the merged configuration has every key the SSH-config step can set
\* exactly as the previous layers left it.
C15_UnreadableSshConfigNotFatal ==
  SshConfigUnreadable =>
    /\ lastResult.err \in {"", "EnvVarNotFound", "IgnoreFileNotFound",
                           "IgnoreFileReadError", "ValidationFailed"}
    /\ lastCall.complete.ok =>
         \A k \in SshTargets :
           /\ Has(lastCall.complete.v, k) <=> Has(PreviousLayers, k)
           /\ Has(PreviousLayers, k) => lastCall.complete.v[k] = PreviousLayers[k]

\* A call has succeeded without its SSH config file, for a host that the
\* file has a block for when it exists.
C15_Witness ==
  /\ SshConfigUnreadable
  /\ lastResult.ok
  /\ lastResult.config["host"] = "example.com"

\* C16: a dispose() call leaves the queue of every scheduler the FileService
\* owns empty and its pending set empty (every pending task cancelled), so
\* that no task queued at the disposal can start.
C16_DisposeCancelsAll ==
  [][Dispose => /\ pendingTransferTasks' = {}
                /\ \A s \in SeqToSet(transferSchedulers) : queue'[s] = <<>>]_vars

\* mergeProfile has been applied to a base configuration and a profile.
ProfileMerged == merge.op = "mergeProfile" /\ merge.done

\* The base configuration and the profile both declare `ignore` as arrays.
BothIgnoreArrays ==
  /\ Has(merge.target, "ignore") /\ IsArray(merge.target["ignore"])
  /\ Has(merge.source, "ignore") /\ IsArray(merge.source["ignore"])

\* C17: when the base configuration and the profile both declare `ignore`
\* as arrays, the merged `ignore` is the entries of the base followed by the
\* entries of the profile, each in its order and with its repetitions, and
\* the array of the base configuration is as it was.
C17_IgnoreConcatenated ==
  ProfileMerged /\ BothIgnoreArrays =>
    LET t == merge.target["ignore"]
        src == merge.source["ignore"]
        r == merge.result["ignore"]
    IN /\ Len(r) = Len(t) + Len(src)
       /\ \A i \in 1..Len(t) : r[i] = t[i]
       /\ \A j \in 1..Len(src) : r[Len(t) + j] = src[j]
       /\ merge.targetAfter = merge.target

\* Two non-empty lists that share an entry have been merged.
C17_Witness ==
  /\ ProfileMerged
  /\ BothIgnoreArrays
  /\ merge.target["ignore"] = <<"a", "b", "a">>
  /\ merge.source["ignore"] = <<"a">>
  /\ merge.result["ignore"] = <<"a", "b", "a", "a">>

\* The profile declares `ignore`, and the `ignore` of the base configuration
\* or that of the profile is not an array.
SomeIgnoreNotArray ==
  /\ Has(merge.source, "ignore")
  /\ \/ ~(Has(merge.target, "ignore") /\ IsArray(merge.target["ignore"]))
     \/ ~IsArray(merge.source["ignore"])

\* C18 as stated: when the profile declares `ignore` and the `ignore` of the
\* base or of the profile is not an array, the merged `ignore` is the value
\* the profile declares.
C18_SourceValueReplaces ==
  ProfileMerged /\ SomeIgnoreNotArray =>
    merge.result["ignore"] = merge.source["ignore"]

\* C18, amended: in that case the merge returns a configuration whose
\* `ignore` is the value the profile declares when that value is an array,
\* and the empty list when it is not.
C18_SourceArrayOrEmpty ==
  ProfileMerged /\ SomeIgnoreNotArray =>
    /\ Has(merge.result, "ignore")
    /\ merge.result["ignore"] =
         IF IsArray(merge.source["ignore"]) THEN merge.source["ignore"] ELSE <<>>

\* A profile whose `ignore` is a string has been merged into a base whose
\* `ignore` is a non-empty array.
C18_Witness ==
  /\ ProfileMerged
  /\ SomeIgnoreNotArray
  /\ ~IsArray(merge.source["ignore"])
  /\ merge.target["ignore"] = <<"a", "b", "a">>
  /\ merge.result["ignore"] = <<>>

\* C19: resolving with a declared profile overlays it on the base: every key
\* the profile declares, other than `ignore`, has the value of the profile;
\* every key of the base that the profile does not declare has the value of
\* the base; the result has no other key and no `profiles`.
C19_ProfileOverlaysBase ==
  ProfileMerged =>
    /\ \A k \in (DOMAIN merge.source) \ {"ignore"} :
         Has(merge.result, k) /\ merge.result[k] = merge.source[k]
    /\ \A k \in (DOMAIN merge.target) \ ((DOMAIN merge.source) \cup {"profiles"}) :
         Has(merge.result, k) /\ merge.result[k] = merge.target[k]
    /\ ~Has(merge.result, "profiles")
    /\ DOMAIN merge.result =
         ((DOMAIN merge.target) \ {"profiles"}) \cup (DOMAIN merge.source)

\* The base with host dev.example.com and username u has been resolved with
\* the profile { host: p.example.com }: host p.example.com, username u.
C19_Witness ==
  /\ ProfileMerged
  /\ merge.target["host"] = "dev.example.com"
  /\ merge.target["username"] = "u"
  /\ merge.source = [host |-> "p.example.com"]
  /\ merge.result["host"] = "p.example.com"
  /\ merge.result["username"] = "u"

\* The SSH-config step has been applied to a configuration whose host has a
\* host block in the file.
SshMerged ==
  /\ merge.op = "sshConfig"
  /\ merge.done
  /\ FindSection(merge.content, merge.config["host"]) # 0

\* The lines of the matching host block.
SshLines == merge.content[FindSection(merge.content, merge.config["host"])].config

\* The values the lines of the block give for the configuration key `key`,
\* in the order of the lines.
SshValuesFor(key) ==
  LET ls == SelectSeq(SshLines, LAMBDA l :
                        /\ ToLowerCase(l.param) \in SshKeys
                        /\ SshKeyMapping(ToLowerCase(l.param)) = key)
  IN [i \in 1..Len(ls) |-> ls[i].value]

\* C20: in the SSH-config merge of a configuration whose host has a host
\* block, a hostname of the block always becomes `host` (the last one when
\* there are several); each other mapped key (port, username,
\* privateKeyPath, keepalive, connTimeout) keeps its value when the earlier
\* layers defined it, and otherwise takes the first value the block gives
\* for it; no other key changes.
C20_SshConfigPrecedence ==
  SshMerged =>
    /\ merge.result["host"] =
         IF SshValuesFor("host") # <<>>
         THEN SshValuesFor("host")[Len(SshValuesFor("host"))]
         ELSE merge.config["host"]
    /\ \A k \in SshTargets \ {"host"} :
         IF Has(merge.config, k)
         THEN Has(merge.result, k) /\ merge.result[k] = merge.config[k]
         ELSE IF SshValuesFor(k) # <<>>
         THEN /\ Has(merge.result, k)
              /\ merge.result[k] = IF k = "port" THEN ParseInt(SshValuesFor(k)[1])
                                    ELSE SshValuesFor(k)[1]
         ELSE ~Has(merge.result, k)
    /\ \A k \in (DOMAIN merge.config) \ SshTargets :
         Has(merge.result, k) /\ merge.result[k] = merge.config[k]
    /\ DOMAIN merge.result \subseteq (DOMAIN merge.config) \cup SshTargets

\* A block that gives hostname, port and user has been merged into a
\* configuration that already had username and port: the host is replaced,
\* username and port are kept.
C20_Witness ==
  /\ SshMerged
  /\ Has(merge.config, "username") /\ Has(merge.config, "port")
  /\ SshValuesFor("username") # <<>> /\ SshValuesFor("port") # <<>>
  /\ merge.result["host"] = "real.example.com"
  /\ merge.result["username"] = "u"
  /\ merge.result["port"] = 2222

\* The last getConfig call returned a configuration.
Resolved == lastCall.called /\ lastResult.ok

\* C21: a returned configuration whose port no layer set (completeConfig
\* has no port) has port 21 when its protocol is "ftp" and port 22
\* otherwise; a port that a layer set is returned as it is.
C21_DefaultPort ==
  Resolved =>
    /\ Has(lastResult.config, "port")
    /\ lastResult.config["port"] =
         IF Has(lastCall.complete.v, "port") THEN lastCall.complete.v["port"]
         ELSE IF lastResult.config["protocol"] = "ftp" THEN 21 ELSE 22

\* An ftp configuration without a port has been resolved to port 21.
C21_Witness ==
  /\ Resolved
  /\ ~Has(lastCall.complete.v, "port")
  /\ lastResult.config["protocol"] = "ftp"
  /\ lastResult.config["port"] = 21

\* An sftp configuration whose port the SSH config file set has been
\* returned with that port.
C21_WitnessKept ==
  /\ Resolved
  /\ lastResult.config["protocol"] = "sftp"
  /\ Has(lastCall.complete.v, "port")
  /\ lastResult.config["port"] = 2200

\* C22: every configuration getConfig returns with protocol "ftp" has
\* concurrency 1.
C22_FtpSerial ==
  Resolved /\ lastResult.config["protocol"] = "ftp" =>
    lastResult.config["concurrency"] = 1

\* An ftp configuration whose layers gave a concurrency other than 1 has
\* been returned with concurrency 1.
C22_Witness ==
  /\ Resolved
  /\ lastResult.config["protocol"] = "ftp"
  /\ lastCall.complete.v["concurrency"] # 1
  /\ lastResult.config["concurrency"] = 1

\* The ignore predicate has been applied to a path.
IgnoreApplied == merge.op = "ignoreFn" /\ merge.done

\* The segments of `p` below `root`, for a path in or below that directory.
Below(root, p) == SubSeq(p, Len(root) + 1, Len(p))
IsUnder(root, p) == Len(p) >= Len(root) /\ SubSeq(p, 1, Len(root)) = root

C23_WitnessIgnored ==
  /\ IgnoreApplied
  /\ merge.path = <<"srv", "site", "lib", "node_modules">>
  /\ merge.result = TRUE

\* C24: in every reachable state the pending set holds only tasks that a
\* scheduler of the service has dispatched and that have not completed: no
\* queued task, no completed task; and it holds at most as many tasks as
\* the concurrency limits of the created schedulers add up to.
C24_PendingAreRunning ==
  /\ \A t \in pendingTransferTasks :
       /\ taskSched[t] \in Created
       /\ taskState[t] = "running"
       /\ beforeEv[t] > 0 /\ afterEv[t] = 0
  /\ Cardinality(pendingTransferTasks) <= SumLen([s \in Scheds |->
         IF s \in Created THEN [i \in 1..handleConc[s] |-> i] ELSE <<>>], MaxObjects)

\* The pending set holds a running task while another task is queued and a
\* third has completed.
C24_Witness ==
  /\ pendingTransferTasks # {}
  /\ \E t \in Tasks : taskState[t] = "queued"
  /\ \E t \in Tasks : Completed(t)

\* C25: every created scheduler that holds a queued or a running task is in
\* the active list of the service (so that isTransferring() is true and
\* cancelTransferTasks() reaches it).
C25_BusySchedulersActive ==
  \A s \in Created : (queue[s] # <<>> \/ running[s] # {}) => Active(s)

\* C26: no getConfig call, returning or throwing, changes the stored raw
\* configuration, and a getConfig call that follows a call with the same
\* argument, with no change of the external state in between, has the same
\* outcome.
C26_GetConfigPure ==
  [][/\ fsConfig' = fsConfig
     /\ (lastCall.called /\ lastCall'.called /\ lastCall'.arg = lastCall.arg)
          => lastResult' = lastResult]_vars

\* A call has been repeated with the same argument and has returned a
\* configuration that took its host from the SSH config file.
C26_Witness ==
  /\ lastCall.called
  /\ lastCall.repeated
  /\ lastResult.ok
  /\ lastResult.config["host"] = "real.example.com"

\* C27: when a run() call has finished, every listener that was registered
\* and not unsubscribed at the time the command finished has been invoked
\* exactly once, with the arguments of run(), whatever doCommandRun did and
\* whatever the listeners unsubscribe during the notification; and no other
\* listener has been invoked.
C27_ListenersNotifiedOnce ==
  cmd.pc = "done" =>
    \A l \in Listeners :
      IF IndexOfListener(cmd.atFinish, l) > 0
      THEN cmd.invoked[l] = 1 /\ cmd.got[l] = cmd.args
      ELSE cmd.invoked[l] = 0

\* C28: the done-listeners of a command are notified only when no work of
\* its handler is still in progress (no pending handleCommand or handleFile
\* promise), and no rejection of a handler is left without a handler.
C28_NotifiedAfterWork ==
  /\ cmd.pc = "done" =>
       ~WorkInProgress([work |-> cmd.workAtNotify, tasks |-> cmd.tasksAtNotify])
  /\ cmd.unhandled = 0

C29_WitnessNoTarget ==
  /\ cmd.kind = "file"
  /\ cmd.pc = "done"
  /\ cmd.target = "undefined"
  /\ cmd.handled = <<>>

\* The selectors of the call under observation whose result is truthy.
TruthySelectors ==
  {i \in 1..Len(merge.selectors) :
     Truthy(SelectorResult(merge.selectors[i], merge.args))}

\* The first of them.
FirstTruthySelector ==
  CHOOSE i \in TruthySelectors : \A j \in TruthySelectors : i <= j

\* C30: a call of applySelector(s1..sn)(args) calls the selectors in their
\* order, each with args; it stops at the first selector whose result is
\* truthy and returns that result; when no result is truthy it has called
\* every selector once and returns the result of the last one.
C30_FirstTruthySelector ==
  (merge.op = "applySelector" /\ merge.done) =>
    /\ \A i \in 1..Len(merge.calls) :
         merge.calls[i] = [selector |-> i, args |-> merge.args]
    /\ IF TruthySelectors /= {}
       THEN /\ Len(merge.calls) = FirstTruthySelector
            /\ merge.result =
                 SelectorResult(merge.selectors[FirstTruthySelector], merge.args)
       ELSE /\ Len(merge.calls) = Len(merge.selectors)
            /\ Len(merge.selectors) > 0 =>
                 merge.result =
                   SelectorResult(merge.selectors[Len(merge.selectors)], merge.args)

C30_Witness ==
  /\ merge.op = "applySelector"
  /\ merge.done
  /\ merge.selectors = <<"empty", "onlyA", "echo">>
  /\ merge.args = "uriA"
  /\ merge.result = "uriA"
  /\ Len(merge.calls) = 2

C30_WitnessNoneTruthy ==
  /\ merge.op = "applySelector"
  /\ merge.done
  /\ merge.selectors = <<"onlyA", "undefined", "empty">>
  /\ merge.args = "uriB"
  /\ merge.result = ""
  /\ Len(merge.calls) = 3

====
